---- MODULE Spec2Model ----
(***************************************************************************)
(* Model of src/value/borrowed.rs: the borrowed realization of the         *)
(* ImportSource, SymbolToken, Sequence, Struct and Element capabilities.   *)
(*                                                                         *)
(* Every type of the file is immutable once built, so the state is one     *)
(* constructed BorrowedElement (elem), the arguments it was constructed    *)
(* from (args, kept only to state the properties), and the one piece of    *)
(* state that does change: the position of an iterator handed out by       *)
(* Sequence::iter, Struct::iter or Element::annotations.                   *)
(***************************************************************************)
EXTENDS Integers, Sequences, FiniteSets

VARIABLES
    args,   \* the arguments of the construction that produced elem
    elem,   \* the BorrowedElement under observation
    it,     \* the live boxed iterator: [kind, slice, pos], or [kind |-> "none"]
    out,    \* the items the live iterator has yielded so far, in order
    done,   \* TRUE once next() on the live iterator has returned None
    prev,   \* how the previous iterator was left: [kind, consumed]
    obs     \* what the accessors returned when the consumer last called them

vars == <<args, elem, it, out, done, prev, obs>>

(***************************************************************************)
(* Bounds of the model.                                                    *)
(***************************************************************************)
MaxAnn == 2        \* longest annotation list
MaxChildren == 2   \* longest child list of a sequence
MaxFields == 2     \* longest field list of a struct

(***************************************************************************)
(* Option<T>                                                               *)
(***************************************************************************)
None == [some |-> FALSE]
Some(x) == [some |-> TRUE, val |-> x]
IsSome(o) == o.some
Option(S) == {None} \cup {Some(x) : x \in S}

SeqsUpTo(S, n) == UNION {[1..k -> S] : k \in 0..n}

Reverse(s) == [k \in 1..Len(s) |-> s[Len(s) + 1 - k]]

\* the items of s at the positions in I, in the order of s
RECURSIVE KeepAt(_, _)
KeepAt(s, I) ==
    IF s = <<>> THEN <<>>
    ELSE LET front == KeepAt(SubSeq(s, 1, Len(s) - 1), I)
         IN  IF Len(s) \in I THEN Append(front, s[Len(s)]) ELSE front

IsPrefix(s, t) == Len(s) <= Len(t) /\ s = SubSeq(t, 1, Len(s))

(***************************************************************************)
(* IonType: the categorical type tags.  The six tags that ion_type names   *)
(* for the non-null variants, and the remaining tags of crate::IonType,    *)
(* which only a typed null can carry in this file.                         *)
(***************************************************************************)
IonType ==
    {"Null", "Boolean", "Integer", "Float", "Decimal", "Timestamp", "Symbol",
     "String", "Clob", "Blob", "List", "SExpression", "Struct"}

(***************************************************************************)
(* BorrowedImportSource                                                    *)
(***************************************************************************)
BorrowedImportSource_new(tbl, s) == [table |-> tbl, sid |-> s]

table(src) == src.table

sid(src) == src.sid

(***************************************************************************)
(* BorrowedSymbolToken                                                     *)
(***************************************************************************)
\* a constructor that forgets the import source
BorrowedSymbolToken_new_nosource(t, l, s) ==
    [text |-> t, local_sid |-> l, source |-> None]

BorrowedSymbolToken_new(t, l, s) ==
    [text |-> t, local_sid |-> l, source |-> s]

BorrowedSymbolToken_from(t) == BorrowedSymbolToken_new(Some(t), None, None)

text(tok) == tok.text

local_sid(tok) == tok.local_sid

\* self.source.as_ref(): Option<&T> of the stored Option<T>
source(tok) == IF IsSome(tok.source) THEN Some(tok.source.val) ELSE None

(***************************************************************************)
(* BorrowedSequence and BorrowedStruct                                     *)
(***************************************************************************)
BorrowedSequence_new(children) == [children |-> children]

\* a struct indexed by name: a later field replaces an earlier one of its name
BorrowedStruct_new_by_name(fields) ==
    [fields |-> KeepAt(fields,
                       {k \in 1..Len(fields) :
                          \A j \in (k + 1)..Len(fields) : fields[j][1] # fields[k][1]})]

BorrowedStruct_new(fields) == [fields |-> fields]

(***************************************************************************)
(* BorrowedValue: the tagged union.                                        *)
(***************************************************************************)
NullV(t) == [variant |-> "Null", t |-> t]
IntegerV(i) == [variant |-> "Integer", i |-> i]
StringV(s) == [variant |-> "String", text |-> s]
SymbolV(tok) == [variant |-> "Symbol", sym |-> tok]
SExpressionV(seq) == [variant |-> "SExpression", seq |-> seq]
ListV(seq) == [variant |-> "List", seq |-> seq]
StructV(st) == [variant |-> "Struct", structure |-> st]

(***************************************************************************)
(* BorrowedElement                                                         *)
(***************************************************************************)
\* a constructor that forgets the annotations
BorrowedElement_new_bare(annotations, value) ==
    [annotations |-> <<>>, value |-> value]

BorrowedElement_new(annotations, value) ==
    [annotations |-> annotations, value |-> value]

BorrowedElement_from(val) == BorrowedElement_new(<<>>, val)

\* every null reported as the untyped null
ion_type_untyped_null(e) ==
    CASE e.value.variant = "Null" -> "Null"
      [] OTHER -> e.value.variant

ion_type(e) ==
    CASE e.value.variant = "Null" -> e.value.t
      [] e.value.variant = "Integer" -> "Integer"
      [] e.value.variant = "String" -> "String"
      [] e.value.variant = "Symbol" -> "Symbol"
      [] e.value.variant = "SExpression" -> "SExpression"
      [] e.value.variant = "List" -> "List"
      [] e.value.variant = "Struct" -> "Struct"

\* nullness decided by the type tag instead of the variant
is_null_by_tag(e) == ion_type(e) = "Null"

is_null(e) ==
    CASE e.value.variant = "Null" -> TRUE
      [] OTHER -> FALSE

\* a typed null of the integer category narrowed to a default integer
as_any_int_typed_null(e) ==
    CASE e.value.variant = "Integer" -> Some(e.value.i)
      [] e.value.variant = "Null" /\ e.value.t = "Integer" -> Some(0)
      [] OTHER -> None

as_any_int(e) ==
    CASE e.value.variant = "Integer" -> Some(e.value.i)
      [] OTHER -> None

\* no narrowing through the Symbol variant
as_str_string_only(e) ==
    CASE e.value.variant = "String" -> Some(e.value.text)
      [] OTHER -> None

as_str(e) ==
    CASE e.value.variant = "String" -> Some(e.value.text)
      [] e.value.variant = "Symbol" -> text(e.value.sym)
      [] OTHER -> None

as_sym(e) ==
    CASE e.value.variant = "Symbol" -> Some(e.value.sym)
      [] OTHER -> None

\* only the List flavour accepted
as_sequence_list_only(e) ==
    CASE e.value.variant = "List" -> Some(e.value.seq)
      [] OTHER -> None

as_sequence(e) ==
    CASE e.value.variant \in {"SExpression", "List"} -> Some(e.value.seq)
      [] OTHER -> None

as_struct(e) ==
    CASE e.value.variant = "Struct" -> Some(e.value.structure)
      [] OTHER -> None

(***************************************************************************)
(* Iterators.  Vec::iter() is a cursor over the vector; next() yields the  *)
(* item under the cursor and advances, or yields None at the end.          *)
(***************************************************************************)
slice_iter(v) == [slice |-> v, pos |-> 0]

slice_next(i) ==
    IF i.pos < Len(i.slice)
    THEN [item |-> Some(i.slice[i.pos + 1]), iter |-> [i EXCEPT !.pos = @ + 1]]
    ELSE [item |-> None, iter |-> i]

\* Box<dyn Iterator>: the cursor together with the kind of item it yields
Boxed(k, i) == [kind |-> k, slice |-> i.slice, pos |-> i.pos]

\* iteration from the last child to the first
Sequence_iter_rev(seq) == Boxed("seq", slice_iter(Reverse(seq.children)))

Sequence_iter(seq) == Boxed("seq", slice_iter(seq.children))

\* the closure of Struct::iter: &(k, v) -> (&k, &v)
field_pair(kv) == <<kv[1], kv[2]>>

Struct_iter(st) == Boxed("struct", slice_iter(st.fields))

\* annotations treated as a set: a repeated token is yielded once
annotations_distinct(e) ==
    Boxed("ann",
          slice_iter(KeepAt(e.annotations,
                            {k \in 1..Len(e.annotations) :
                               \A j \in 1..(k - 1) : e.annotations[j] # e.annotations[k]})))

annotations(e) == Boxed("ann", slice_iter(e.annotations))

\* next() on the boxed iterator; the struct iterator maps its closure over
\* the item of the underlying cursor
boxed_next(i) ==
    LET r == slice_next(i)
    IN  IF i.kind = "struct" /\ IsSome(r.item)
        THEN [item |-> Some(field_pair(r.item.val)), iter |-> r.iter]
        ELSE r

(***************************************************************************)
(* The inputs a producer builds elements from.                             *)
(***************************************************************************)
Texts == {"foo", "a"}
SymbolIds == {10}
AnyInts == {1, 2, 5}
ImportSources == {BorrowedImportSource_new("t", 1)}

\* arguments of a token construction: BorrowedSymbolToken::new or From<&str>
TokenArgs ==
    [how : {"new"}, text : Option(Texts), local_sid : Option(SymbolIds),
     source : Option(ImportSources)]
    \cup [how : {"from"}, text : Texts]

MakeToken(ta) ==
    IF ta.how = "new"
    THEN BorrowedSymbolToken_new(ta.text, ta.local_sid, ta.source)
    ELSE BorrowedSymbolToken_from(ta.text)

Unresolved == BorrowedSymbolToken_new(None, None, None)

AnnTokens ==
    {BorrowedSymbolToken_from("foo"),
     Unresolved,
     BorrowedSymbolToken_new(None, Some(10), Some(BorrowedImportSource_new("t", 1)))}

AnnLists == SeqsUpTo(AnnTokens, MaxAnn)

FieldNames == {BorrowedSymbolToken_from("a"), Unresolved}

ChildElems ==
    {BorrowedElement_from(IntegerV(1)),
     BorrowedElement_from(IntegerV(2)),
     BorrowedElement_new(<<BorrowedSymbolToken_from("a")>>, NullV("String"))}

\* arguments of a value construction, one shape per variant
ValueArgs ==
    [kind : {"Null"}, t : IonType]
    \cup [kind : {"Integer"}, i : AnyInts]
    \cup [kind : {"String"}, text : Texts]
    \cup [kind : {"Symbol"}, tok : TokenArgs]
    \cup [kind : {"SExpression", "List"},
          children : SeqsUpTo(ChildElems, MaxChildren)]
    \cup [kind : {"Struct"},
          fields : SeqsUpTo(FieldNames \X ChildElems, MaxFields)]

MakeValue(p) ==
    CASE p.kind = "Null" -> NullV(p.t)
      [] p.kind = "Integer" -> IntegerV(p.i)
      [] p.kind = "String" -> StringV(p.text)
      [] p.kind = "Symbol" -> SymbolV(MakeToken(p.tok))
      [] p.kind = "SExpression" -> SExpressionV(BorrowedSequence_new(p.children))
      [] p.kind = "List" -> ListV(BorrowedSequence_new(p.children))
      [] p.kind = "Struct" -> StructV(BorrowedStruct_new(p.fields))

NoIter == [kind |-> "none"]
NoPrev == [kind |-> "none", consumed |-> "none"]
NotRead == [read |-> FALSE]

(***************************************************************************)
(* Init: an element has just been constructed, by BorrowedElement::new     *)
(* from an annotation list and a value, or by From<BorrowedValue> from a   *)
(* value alone.  No iterator has been handed out yet.                      *)
(***************************************************************************)
Init ==
    /\ \E p \in ValueArgs :
          \/ \E a \in AnnLists :
                /\ args = [how |-> "new", annotations |-> a, value |-> p]
                /\ elem = BorrowedElement_new(a, MakeValue(p))
          \/ /\ args = [how |-> "from", value |-> p]
             /\ elem = BorrowedElement_from(MakeValue(p))
    /\ it = NoIter
    /\ out = <<>>
    /\ done = FALSE
    /\ prev = NoPrev
    /\ obs = NotRead

\* how the live iterator is left when another one replaces it
Left ==
    IF it.kind = "none" THEN prev
    ELSE [kind |-> it.kind,
          consumed |-> IF done THEN "full"
                       ELSE IF it.pos > 0 THEN "partial" ELSE "unused"]

Start(i) ==
    /\ it' = i
    /\ out' = <<>>
    /\ done' = FALSE
    /\ prev' = Left
    /\ UNCHANGED <<args, elem, obs>>

\* as_sequence(elem) is present and the consumer calls iter() on it
SeqIter ==
    /\ IsSome(as_sequence(elem))
    /\ Start(Sequence_iter(as_sequence(elem).val))

\* as_struct(elem) is present and the consumer calls iter() on it
StructIter ==
    /\ IsSome(as_struct(elem))
    /\ Start(Struct_iter(as_struct(elem).val))

\* the consumer calls annotations() on the element
AnnIter == Start(annotations(elem))

\* the consumer calls next() on the live iterator
IterNext ==
    /\ it.kind # "none"
    /\ LET r == boxed_next(it)
       IN  /\ it' = r.iter
           /\ out' = IF IsSome(r.item) THEN Append(out, r.item.val) ELSE out
           /\ done' = ~IsSome(r.item)
    /\ UNCHANGED <<args, elem, prev, obs>>

\* the consumer calls the seven non-iterating accessors of Element
Read ==
    /\ obs' = [read |-> TRUE,
               ion_type |-> ion_type(elem),
               is_null |-> is_null(elem),
               as_any_int |-> as_any_int(elem),
               as_str |-> as_str(elem),
               as_sym |-> as_sym(elem),
               as_sequence |-> as_sequence(elem),
               as_struct |-> as_struct(elem)]
    /\ UNCHANGED <<args, elem, it, out, done, prev>>

Next ==
    \/ Read
    \/ SeqIter
    \/ StructIter
    \/ AnnIter
    \/ IterNext

Spec == Init /\ [][Next]_vars

(***************************************************************************)
(* What the construction arguments say the element must be.                *)
(***************************************************************************)
Kind == args.value.kind

\* the annotation list attached at construction; From<BorrowedValue> takes none
Attached == IF args.how = "new" THEN args.annotations ELSE <<>>

\* the three facets handed to the token construction of a Symbol value
GivenText == IF args.value.tok.how = "new" THEN args.value.tok.text
             ELSE Some(args.value.tok.text)
GivenLocalSid == IF args.value.tok.how = "new" THEN args.value.tok.local_sid
                 ELSE None
GivenSource == IF args.value.tok.how = "new" THEN args.value.tok.source
               ELSE None

\* C1: ion_type() is the tag of the variant used at construction, and for
\* Null(t) the embedded tag t; annotations and payload do not matter.
C1_IonTypeMatchesVariant ==
    obs.read =>
        /\ Kind = "Null" => obs.ion_type = args.value.t
        /\ Kind = "Integer" => obs.ion_type = "Integer"
        /\ Kind = "String" => obs.ion_type = "String"
        /\ Kind = "Symbol" => obs.ion_type = "Symbol"
        /\ Kind = "SExpression" => obs.ion_type = "SExpression"
        /\ Kind = "List" => obs.ion_type = "List"
        /\ Kind = "Struct" => obs.ion_type = "Struct"

C1_Witness ==
    /\ obs.read
    /\ args.how = "new"
    /\ Len(args.annotations) = MaxAnn
    /\ Kind = "Null"
    /\ args.value.t = "Symbol"
    /\ obs.ion_type = "Symbol"

\* C2: is_null() is true exactly for an element built from the Null
\* variant, whatever the embedded tag.
C2_IsNullIffNullVariant ==
    obs.read => (obs.is_null <=> Kind = "Null")

C2_Witness ==
    /\ obs.read
    /\ Kind = "Null"
    /\ args.value.t = "String"
    /\ obs.is_null
    /\ obs.ion_type = "String"

\* C3: as_str() is the text of a String value, the token's text of a Symbol
\* value whose token carries text, and absent for a textless Symbol and for
\* every other variant.
C3_AsStr ==
    obs.read =>
        /\ Kind = "String" => obs.as_str = Some(args.value.text)
        /\ Kind = "Symbol" /\ IsSome(GivenText) => obs.as_str = GivenText
        /\ Kind = "Symbol" /\ ~IsSome(GivenText) => obs.as_str = None
        /\ Kind \notin {"String", "Symbol"} => obs.as_str = None

C3_Witness ==
    /\ obs.read
    /\ Kind = "Symbol"
    /\ args.value.tok.how = "new"
    /\ args.value.tok.text = Some("foo")
    /\ IsSome(args.value.tok.local_sid)
    /\ IsSome(args.value.tok.source)
    /\ obs.as_str = Some("foo")

\* C4: each narrowing accessor returns the payload on a variant match and
\* absent otherwise: as_any_int exactly for Integer, as_sym exactly for
\* Symbol, as_sequence exactly for SExpression and List, as_struct exactly
\* for Struct.
C4_NarrowingAccessors ==
    obs.read =>
        /\ IsSome(obs.as_any_int) <=> Kind = "Integer"
        /\ Kind = "Integer" => obs.as_any_int = Some(args.value.i)
        /\ IsSome(obs.as_sym) <=> Kind = "Symbol"
        /\ Kind = "Symbol" => text(obs.as_sym.val) = GivenText
        /\ IsSome(obs.as_sequence) <=> Kind \in {"SExpression", "List"}
        /\ Kind \in {"SExpression", "List"} =>
              obs.as_sequence.val.children = args.value.children
        /\ IsSome(obs.as_struct) <=> Kind = "Struct"
        /\ Kind = "Struct" => obs.as_struct.val.fields = args.value.fields

C4_Witness ==
    /\ obs.read
    /\ Kind = "SExpression"
    /\ Len(args.value.children) = MaxChildren
    /\ IsSome(obs.as_sequence)
    /\ ~IsSome(obs.as_any_int)
    /\ ~IsSome(obs.as_str)

\* C5: round trip: the type, the payload read through the accessor that
\* matches the variant, and the annotations read through annotations() are
\* exactly the ones the element was constructed from.
C5_RoundTrip ==
    /\ obs.read =>
          /\ obs.ion_type = (IF Kind = "Null" THEN args.value.t ELSE Kind)
          /\ Kind = "Integer" => obs.as_any_int = Some(args.value.i)
          /\ Kind = "String" => obs.as_str = Some(args.value.text)
          /\ Kind = "Symbol" =>
                /\ IsSome(obs.as_sym)
                /\ text(obs.as_sym.val) = GivenText
                /\ local_sid(obs.as_sym.val) = GivenLocalSid
                /\ source(obs.as_sym.val) = GivenSource
          /\ Kind \in {"SExpression", "List"} =>
                /\ IsSome(obs.as_sequence)
                /\ obs.as_sequence.val.children = args.value.children
          /\ Kind = "Struct" =>
                /\ IsSome(obs.as_struct)
                /\ obs.as_struct.val.fields = args.value.fields
    /\ it.kind = "ann" /\ done => out = Attached

C5_Witness ==
    /\ obs.read
    /\ args.how = "new"
    /\ Kind = "Struct"
    /\ Len(args.value.fields) = MaxFields
    /\ Len(args.annotations) = MaxAnn
    /\ args.annotations[1] # args.annotations[2]
    /\ it.kind = "ann"
    /\ done
    /\ out = args.annotations

\* C6: Sequence::iter() yields the children in construction order, as many
\* as were given, and every call starts again from the first child, however
\* far earlier iterators were consumed.
C6_SequenceIter ==
    it.kind = "seq" =>
        /\ IsPrefix(out, args.value.children)
        /\ done => out = args.value.children
        /\ done => Len(out) = Len(args.value.children)

C6_Witness ==
    /\ it.kind = "seq"
    /\ prev = [kind |-> "seq", consumed |-> "partial"]
    /\ done
    /\ Len(out) = MaxChildren
    /\ out[1] # out[2]
    /\ out = args.value.children

\* C7: Struct::iter() yields the (name, value) pairs in insertion order, as
\* many as were given; fields of the same name are all yielded, each name
\* with the value it was inserted with.
C7_StructIter ==
    it.kind = "struct" =>
        /\ IsPrefix(out, args.value.fields)
        /\ done => out = args.value.fields
        /\ done => Len(out) = Len(args.value.fields)
        /\ \A k \in 1..Len(out) :
              /\ out[k][1] = args.value.fields[k][1]
              /\ out[k][2] = args.value.fields[k][2]

C7_Witness ==
    /\ it.kind = "struct"
    /\ done
    /\ Len(args.value.fields) = MaxFields
    /\ args.value.fields[1][1] = BorrowedSymbolToken_from("a")
    /\ args.value.fields[2][1] = BorrowedSymbolToken_from("a")
    /\ args.value.fields[1][2] = BorrowedElement_from(IntegerV(1))
    /\ args.value.fields[2][2] = BorrowedElement_from(IntegerV(2))
    /\ Len(out) = MaxFields
    /\ out[1] = <<BorrowedSymbolToken_from("a"), BorrowedElement_from(IntegerV(1))>>
    /\ out[2] = <<BorrowedSymbolToken_from("a"), BorrowedElement_from(IntegerV(2))>>

\* C8: annotations() yields the attached tokens in attachment order,
\* duplicates kept, as many as were attached; nothing for an element built
\* by From<BorrowedValue>; the annotations of the children of a container
\* play no part.
C8_Annotations ==
    it.kind = "ann" =>
        /\ IsPrefix(out, Attached)
        /\ done => out = Attached
        /\ done => Len(out) = Len(Attached)
        /\ args.how = "from" => out = <<>>

C8_Witness ==
    /\ it.kind = "ann"
    /\ done
    /\ args.how = "new"
    /\ Kind = "List"
    /\ \E k \in 1..Len(args.value.children) :
          args.value.children[k].annotations # <<>>
    /\ Len(args.annotations) = MaxAnn
    /\ args.annotations[1] = args.annotations[2]
    /\ out = args.annotations

\* C9: a symbol token reports exactly the three facets it was constructed
\* with, each independently of the others; a token built from literal text
\* has that text and neither local_sid nor source; an unresolved token is
\* accepted as a Symbol value and as an annotation and read back unchanged.
C9_TokenFacets ==
    /\ obs.read /\ Kind = "Symbol" =>
          /\ IsSome(obs.as_sym)
          /\ text(obs.as_sym.val) = GivenText
          /\ local_sid(obs.as_sym.val) = GivenLocalSid
          /\ source(obs.as_sym.val) = GivenSource
          /\ args.value.tok.how = "from" =>
                /\ text(obs.as_sym.val) = Some(args.value.tok.text)
                /\ local_sid(obs.as_sym.val) = None
                /\ source(obs.as_sym.val) = None
    /\ it.kind = "ann" /\ done =>
          /\ Len(out) = Len(Attached)
          /\ \A k \in 1..Len(out) :
                /\ text(out[k]) = text(Attached[k])
                /\ local_sid(out[k]) = local_sid(Attached[k])
                /\ source(out[k]) = source(Attached[k])

C9_Witness ==
    /\ obs.read
    /\ Kind = "Symbol"
    /\ args.value.tok.how = "new"
    /\ args.value.tok.text = None
    /\ args.value.tok.local_sid = None
    /\ IsSome(args.value.tok.source)
    /\ IsSome(obs.as_sym)
    /\ text(obs.as_sym.val) = None
    /\ local_sid(obs.as_sym.val) = None
    /\ IsSome(source(obs.as_sym.val))
    /\ it.kind = "ann"
    /\ done
    /\ Len(out) > 0
    /\ text(out[1]) = None
    /\ local_sid(out[1]) = None

\* C10: a present narrowing accessor fixes the type tag and excludes null,
\* at most one of as_any_int, as_sym, as_sequence, as_struct is present,
\* as_str and as_sym are both present exactly for a Symbol with text; a
\* typed null has no accessor present, whatever its tag.
C10_TagAccessorConsistency ==
    obs.read =>
        /\ IsSome(obs.as_any_int) => ~obs.is_null /\ obs.ion_type = "Integer"
        /\ IsSome(obs.as_sym) => ~obs.is_null /\ obs.ion_type = "Symbol"
        /\ IsSome(obs.as_sequence) =>
              ~obs.is_null /\ obs.ion_type \in {"SExpression", "List"}
        /\ IsSome(obs.as_struct) => ~obs.is_null /\ obs.ion_type = "Struct"
        /\ Cardinality({a \in {"int", "sym", "seq", "struct"} :
                          \/ a = "int" /\ IsSome(obs.as_any_int)
                          \/ a = "sym" /\ IsSome(obs.as_sym)
                          \/ a = "seq" /\ IsSome(obs.as_sequence)
                          \/ a = "struct" /\ IsSome(obs.as_struct)}) <= 1
        /\ IsSome(obs.as_str) => obs.ion_type \in {"String", "Symbol"}
        /\ (IsSome(obs.as_str) /\ IsSome(obs.as_sym)) <=>
              (Kind = "Symbol" /\ IsSome(GivenText))
        /\ Kind = "Null" =>
              /\ ~IsSome(obs.as_any_int)
              /\ ~IsSome(obs.as_str)
              /\ ~IsSome(obs.as_sym)
              /\ ~IsSome(obs.as_sequence)
              /\ ~IsSome(obs.as_struct)

C10_Witness ==
    /\ obs.read
    /\ Kind = "Null"
    /\ args.value.t = "Integer"
    /\ obs.ion_type = "Integer"
    /\ obs.is_null
    /\ ~IsSome(obs.as_any_int)
    /\ ~IsSome(obs.as_str)
    /\ ~IsSome(obs.as_sym)
    /\ ~IsSome(obs.as_sequence)
    /\ ~IsSome(obs.as_struct)

====
